---------------------------- MODULE Spec2Model ----------------------------
(***************************************************************************)
(* A model of gemd.util.impl: the traversal, substitution and flatten      *)
(* utilities over a graph of entities (BaseEntity) nested in lists,        *)
(* tuples, dicts and other DictSerializable values.                        *)
(*                                                                         *)
(* The heap maps an entity's identity to its type tag, its uids and its    *)
(* fields.  Everything that is not an entity of the heap is a value term:  *)
(* a scalar, a list, a tuple, a dict, a DictSerializable record, a         *)
(* LinkByUID, or an entity made by build().  Objects that Python hashes by *)
(* identity carry an object id (oid); tuples and scalars hash by value.    *)
(***************************************************************************)
EXTENDS Integers, Sequences, FiniteSets, TLC

VARIABLES heap, wrap, root, edges, pc, op, out

vars == <<heap, wrap, root, edges, pc, op, out>>

----------------------------------------------------------------------------
(* Bounds of the model *)

\* number of field assignments made while a graph is built
MaxEdges == 3
\* stands for sys.getrecursionlimit(): deeper than any terminating
\* traversal of the graphs built here
RecursionLimit == 12

\* entities of the graphs that are built field by field
Entities == {1, 2, 3}
\* entities of the material history of test_flatten_empty_history
ChainEntities == 1 .. 8

----------------------------------------------------------------------------
(* Values *)

Scalar(s) == [k |-> "scalar", v |-> s]
None == Scalar("None")
Ent(e) == [k |-> "ent", e |-> e]
Link(scope, id, oid) == [k |-> "link", scope |-> scope, id |-> id, oid |-> oid]
List(items) == [k |-> "list", items |-> items, cyc |-> FALSE]
\* l = [x, ...]; l.append(l): a list whose last element is the list itself
CycList(items) == [k |-> "list", items |-> items, cyc |-> TRUE]
Tuple(items) == [k |-> "tuple", items |-> items]
Dict(keys, vals) == [k |-> "dict", keys |-> keys, vals |-> vals]
Rec(oid, attrs) == [k |-> "rec", oid |-> oid, attrs |-> attrs]
Built(oid, typ, uids, attrs) ==
    [k |-> "built", oid |-> oid, typ |-> typ, uids |-> uids, attrs |-> attrs]

\* the field names of the model, in sorted order
AllFieldNames == <<"_ingredients", "_material", "_process", "_spec", "_value">>

\* BaseEntity.skip of the object classes: the back-reference fields
skip == {"_ingredients"}

NoFields == [n \in {"_ingredients", "_material", "_process", "_spec"} |-> None]

\* the names of a field mapping, in order
Keys(attrs) == SelectSeq(AllFieldNames, LAMBDA n : n \in DOMAIN attrs)

Range(s) == {s[i] : i \in DOMAIN s}

\* isinstance(v, BaseEntity)
IsEntity(v) == v.k \in {"ent", "built"}
\* isinstance(v, DictSerializable)
IsDictSerializable(v) == v.k \in {"ent", "built", "rec", "link"}
\* v.__hash__ is not None
HasHash(v) == v.k \notin {"list", "dict"}

\* hash(v) succeeds: a tuple hashes its elements
RECURSIVE Hashable(_)
Hashable(v) ==
    CASE v.k \in {"list", "dict"} -> FALSE
      [] v.k = "tuple" -> \A i \in DOMAIN v.items : Hashable(v.items[i])
      [] OTHER -> TRUE

\* elements of a list as iteration yields them
Items(v) == IF v.k = "list" /\ v.cyc THEN Append(v.items, v) ELSE v.items

\* obj.__dict__ of a DictSerializable, field name -> value: the fields that
\* can hold other objects (a LinkByUID holds two strings)
ObjDict(h, v) ==
    CASE v.k = "ent" -> h[v.e].fields
      [] v.k = "built" -> v.attrs
      [] v.k = "rec" -> v.attrs
      [] v.k = "link" -> [n \in {} |-> None]

\* obj.as_dict(): the attribute view, which leaves the skipped fields out
\* ("process.ingredients is skipped", flatten's docstring)
AsDict(h, v) ==
    LET d == ObjDict(h, v)
    IN  IF IsEntity(v) THEN [n \in DOMAIN d \ skip |-> d[n]] ELSE d

\* str.lower() on the scopes of the model
Lower(s) == IF s = "ID" THEN "id" ELSE s

\* entity.uids of an entity value
Uids(h, v) == IF v.k = "ent" THEN h[v.e].uids ELSE v.uids

\* scope in entity.uids, for a CaseInsensitiveDict
HasScope(u, s) == \E t \in DOMAIN u : Lower(t) = Lower(s)
\* entity.uids[scope]
GetScope(u, s) == u[CHOOSE t \in DOMAIN u : Lower(t) = Lower(s)]

----------------------------------------------------------------------------
(* recursive_foreach *)

ForeachInit == [seen |-> {}, calls |-> <<>>, err |-> "none"]

\* the values recursive_foreach descends into, in order
ForeachChildren(h, obj) ==
    CASE obj.k \in {"list", "tuple"} -> Items(obj)
      [] obj.k = "dict" -> obj.keys \o obj.vals
      [] IsDictSerializable(obj) ->
            [i \in DOMAIN Keys(ObjDict(h, obj)) |-> ObjDict(h, obj)[Keys(ObjDict(h, obj))[i]]]
      [] OTHER -> <<>>

\* what a traversal does with obj before anything else (lines 167-173)
Entry(st, obj, depth) ==
    IF st.err # "none" THEN "skip"
    ELSE IF depth > RecursionLimit THEN "RecursionError"
    ELSE IF HasHash(obj) /\ ~Hashable(obj) THEN "TypeError"
    ELSE IF HasHash(obj) /\ obj \in st.seen THEN "seen"
    ELSE "walk"

\* seen.add(obj), for an obj that has a hash
AddSeen(st, obj) == IF HasHash(obj) THEN [st EXCEPT !.seen = @ \cup {obj}] ELSE st

\* func(obj) when obj is an entity and this is the side func is applied on
CallFunc(st, obj, now) ==
    IF st.err = "none" /\ IsEntity(obj) /\ now
    THEN [st EXCEPT !.calls = Append(@, obj)] ELSE st

RECURSIVE recursive_foreach(_, _, _, _, _), foreach_walk(_, _, _, _, _, _),
          foreach_each(_, _, _, _, _), foreach_rest(_, _, _, _, _)
recursive_foreach(h, obj, apply_first, st, depth) ==
    foreach_walk(h, obj, apply_first, st, depth, Entry(st, obj, depth))

\* the body of recursive_foreach once the seen set was consulted
foreach_walk(h, obj, apply_first, st, depth, entry) ==
    CASE entry \in {"skip", "seen"} -> st
      [] entry \in {"RecursionError", "TypeError"} -> [st EXCEPT !.err = entry]
      [] entry = "walk" ->
            CallFunc(foreach_each(h, ForeachChildren(h, obj), apply_first,
                                  CallFunc(AddSeen(st, obj), obj, apply_first),
                                  depth + 1),
                     obj, ~apply_first)

\* the loop over the children: recursive_foreach on each, in order
foreach_each(h, xs, apply_first, st, depth) ==
    IF xs = <<>> THEN st
    ELSE foreach_rest(h, xs, apply_first,
                      recursive_foreach(h, Head(xs), apply_first, st, depth), depth)

foreach_rest(h, xs, apply_first, s1, depth) ==
    IF s1.err # "none" THEN s1
    ELSE foreach_each(h, Tail(xs), apply_first, s1, depth)

----------------------------------------------------------------------------
(* recursive_flatmap *)

\* the (scope, id) pairs of entity.uids.items(), scopes as they were written
UidItems(u) == {<<s, u[s]>> : s \in DOMAIN u}

FlatmapInit(known) == [seen |-> {}, res |-> <<>>, known |-> known, err |-> "none"]

\* flatten._flatten: return the entity unless one of its uids is known
flatten_inner(h, x, st) ==
    [st EXCEPT !.res = IF UidItems(Uids(h, x)) \cap st.known = {}
                       THEN Append(@, x) ELSE @,
               !.known = @ \cup UidItems(Uids(h, x))]

\* res.extend(func(x)) for the two callbacks of the model, when x is an entity
ApplyFunc(h, func, x, st) ==
    IF st.err # "none" \/ ~IsEntity(x) THEN st
    ELSE IF func = "identity" THEN [st EXCEPT !.res = Append(@, x)]
    ELSE flatten_inner(h, x, st)

\* a recursive_flatmap that never skips a field
FlatmapKeysAll(h, obj, unidirectional) == Keys(ObjDict(h, obj))

\* the field names recursive_flatmap iterates over: sorted, the skipped ones
\* left out when unidirectional
FlatmapKeys(h, obj, unidirectional) ==
    SelectSeq(Keys(ObjDict(h, obj)),
              LAMBDA n : ~(unidirectional /\ IsEntity(obj) /\ n \in skip))

\* the values recursive_flatmap descends into, in order
FlatmapChildren(h, obj, unidirectional) ==
    CASE obj.k \in {"list", "tuple"} -> Items(obj)
      [] obj.k = "dict" -> obj.keys \o obj.vals
      [] IsDictSerializable(obj) ->
            [i \in DOMAIN FlatmapKeys(h, obj, unidirectional) |->
                ObjDict(h, obj)[FlatmapKeys(h, obj, unidirectional)[i]]]
      [] OTHER -> <<>>

RECURSIVE recursive_flatmap(_, _, _, _, _, _), flatmap_walk(_, _, _, _, _, _, _),
          flatmap_each(_, _, _, _, _, _), flatmap_rest(_, _, _, _, _, _)
recursive_flatmap(h, obj, func, unidirectional, st, depth) ==
    flatmap_walk(h, obj, func, unidirectional, st, depth, Entry(st, obj, depth))

\* the body of recursive_flatmap once the seen set was consulted
flatmap_walk(h, obj, func, unidirectional, st, depth, entry) ==
    CASE entry \in {"skip", "seen"} -> st
      [] entry \in {"RecursionError", "TypeError"} -> [st EXCEPT !.err = entry]
      [] entry = "walk" ->
            flatmap_each(h, FlatmapChildren(h, obj, unidirectional), func,
                         unidirectional, AddSeen(st, obj), depth + 1)

\* the loop over the children: recurse into x, then func(x) if x is an entity
flatmap_each(h, xs, func, unidirectional, st, depth) ==
    IF xs = <<>> THEN st
    ELSE flatmap_rest(h, xs, func, unidirectional,
                      ApplyFunc(h, func, Head(xs),
                                recursive_flatmap(h, Head(xs), func, unidirectional,
                                                  st, depth)),
                      depth)

flatmap_rest(h, xs, func, unidirectional, s1, depth) ==
    IF s1.err # "none" THEN s1
    ELSE flatmap_each(h, Tail(xs), func, unidirectional, s1, depth)

----------------------------------------------------------------------------
(* _substitute, substitute_links, substitute_objects *)

\* the first object id build() hands out
FirstOid == 100

SubstInit(next) == [visited |-> {}, next |-> next, err |-> "none"]

InVisited(vis, key) == \E p \in vis : p[1] = key
Visited(vis, key) == (CHOOSE p \in vis : p[1] = key)[2]
Put(vis, key, val) == {p \in vis : p[1] # key} \cup {<<key, val>>}

\* LinkByUID.from_entity: a link under one of the entity's scopes
FromEntityScope(u) ==
    IF "auto" \in DOMAIN u THEN "auto" ELSE CHOOSE s \in DOMAIN u : TRUE

\* substitute_links.make_link
make_link(h, entity, native_uid, oid) ==
    IF DOMAIN Uids(h, entity) = {} THEN [err |-> "ValueError", val |-> None]
    ELSE IF native_uid # "" /\ HasScope(Uids(h, entity), native_uid)
    THEN [err |-> "none",
          val |-> Link(native_uid, GetScope(Uids(h, entity), native_uid), oid)]
    ELSE [err |-> "none",
          val |-> Link(FromEntityScope(Uids(h, entity)),
                       Uids(h, entity)[FromEntityScope(Uids(h, entity))], oid)]

\* an index.get without the default
IndexGetNoDefault(index, l) ==
    IF \E p \in index : p[1] = <<Lower(l.scope), l.id>>
    THEN (CHOOSE p \in index : p[1] = <<Lower(l.scope), l.id>>)[2]
    ELSE None

\* index.get((l.scope.lower(), l.id), l)
IndexGet(index, l) ==
    IF \E p \in index : p[1] = <<Lower(l.scope), l.id>>
    THEN (CHOOSE p \in index : p[1] = <<Lower(l.scope), l.id>>)[2]
    ELSE l

\* the applies argument of the two specialisations
Applies(m, thing) ==
    IF m.kind = "links" THEN IsEntity(thing) /\ thing # m.obj
    ELSE thing.k = "link"

\* the sub argument of the two specialisations
Sub(h, m, thing, oid) ==
    IF m.kind = "links" THEN make_link(h, thing, m.native_uid, oid)
    ELSE [err |-> "none", val |-> IndexGet(m.index, thing)]

\* thing.build(new_attrs): a new instance of thing's class
build(h, thing, attrs, oid) ==
    CASE thing.k = "ent" -> Built(oid, h[thing.e].typ, h[thing.e].uids, attrs)
      [] thing.k = "built" -> Built(oid, thing.typ, thing.uids, attrs)
      [] thing.k = "rec" -> Rec(oid, attrs)
      [] thing.k = "link" -> Link(thing.scope, thing.id, oid)

\* k1, v1, k2, v2, ...: the order a dict comprehension evaluates in
Interleave(ks, vs) ==
    [i \in 1 .. 2 * Len(ks) |-> IF i % 2 = 1 THEN ks[(i + 1) \div 2] ELSE vs[i \div 2]]
Odds(s) == [i \in 1 .. Len(s) \div 2 |-> s[2 * i - 1]]
Evens(s) == [i \in 1 .. Len(s) \div 2 |-> s[2 * i]]

Fail(st, e) == [val |-> None, st |-> [st EXCEPT !.err = e]]

\* visited[key] = val when key has a hash
PutHashed(vis, key, val) == IF HasHash(key) THEN Put(vis, key, val) ELSE vis

\* lines 64-67: remember the result under the original and under itself
Remember(thing, r) ==
    IF r.st.err # "none" THEN r
    ELSE IF HasHash(r.val) /\ ~Hashable(r.val) THEN Fail(r.st, "TypeError")
    ELSE [val |-> r.val,
          st |-> [r.st EXCEPT !.visited =
                     PutHashed(PutHashed(@, thing, r.val), r.val, r.val)]]

\* a _substitute without the list and tuple branches
BranchNoSequence(thing, m, st, depth) ==
    IF st.err # "none" THEN "skip"
    ELSE IF depth > RecursionLimit THEN "RecursionError"
    ELSE IF HasHash(thing) /\ ~Hashable(thing) THEN "TypeError"
    ELSE IF HasHash(thing) /\ InVisited(st.visited, thing) THEN "visited"
    ELSE IF Applies(m, thing) THEN "applies"
    ELSE IF thing.k = "dict" THEN "dict"
    ELSE IF IsDictSerializable(thing) THEN "serializable"
    ELSE "other"

\* which branch of _substitute thing takes (lines 43-62)
Branch(thing, m, st, depth) ==
    IF st.err # "none" THEN "skip"
    ELSE IF depth > RecursionLimit THEN "RecursionError"
    ELSE IF HasHash(thing) /\ ~Hashable(thing) THEN "TypeError"
    ELSE IF HasHash(thing) /\ InVisited(st.visited, thing) THEN "visited"
    ELSE IF Applies(m, thing) THEN "applies"
    ELSE IF thing.k \in {"list", "tuple"} THEN "sequence"
    ELSE IF thing.k = "dict" THEN "dict"
    ELSE IF IsDictSerializable(thing) THEN "serializable"
    ELSE "other"

\* the values _substitute recurses into, in the order it evaluates them
SubstChildren(h, thing) ==
    CASE thing.k \in {"list", "tuple"} -> Items(thing)
      [] thing.k = "dict" -> Interleave(thing.keys, thing.vals)
      [] OTHER -> [i \in DOMAIN Keys(AsDict(h, thing)) |->
                      AsDict(h, thing)[Keys(AsDict(h, thing))[i]]]

\* the new container or instance made of the substituted children
New(h, thing, vals, oid) ==
    CASE thing.k = "list" -> List(vals)
      [] thing.k = "tuple" -> Tuple(vals)
      [] thing.k = "dict" -> Dict(Odds(vals), Evens(vals))
      [] OTHER ->
            build(h, thing,
                  [n \in DOMAIN AsDict(h, thing) |->
                      vals[CHOOSE i \in DOMAIN Keys(AsDict(h, thing)) :
                              Keys(AsDict(h, thing))[i] = n]],
                  oid)

\* build() takes the next object id
NextOid(thing, next) == IF IsDictSerializable(thing) THEN next + 1 ELSE next

RECURSIVE substitute(_, _, _, _, _), substitute_branch(_, _, _, _, _, _),
          substitute_applied(_, _, _, _, _, _), substitute_each(_, _, _, _, _, _, _),
          substitute_rest(_, _, _, _, _, _, _)
substitute(h, thing, m, st, depth) ==
    substitute_branch(h, thing, m, st, depth, Branch(thing, m, st, depth))

\* _substitute, branch by branch: [val, st]
substitute_branch(h, thing, m, st, depth, branch) ==
    CASE branch = "skip" -> [val |-> thing, st |-> st]
      [] branch \in {"RecursionError", "TypeError"} -> Fail(st, branch)
      [] branch = "visited" -> [val |-> Visited(st.visited, thing), st |-> st]
      [] branch = "applies" ->
            substitute_applied(h, thing, m, st, depth, Sub(h, m, thing, st.next))
      [] branch \in {"sequence", "dict", "serializable"} ->
            Remember(thing, substitute_each(h, thing, SubstChildren(h, thing), <<>>,
                                            m, st, depth + 1))
      [] branch = "other" -> Remember(thing, [val |-> thing, st |-> st])

\* lines 46-49: remember the replacement, then substitute inside it
substitute_applied(h, thing, m, st, depth, r) ==
    IF r.err # "none" THEN Fail(st, r.err)
    ELSE Remember(thing,
                  substitute(h, r.val, m,
                             [st EXCEPT !.visited = PutHashed(@, thing, r.val),
                                        !.next = @ + 1],
                             depth + 1))

\* substitute the children xs of thing in order, threading the visited table,
\* and make the new value of the substituted children (acc)
substitute_each(h, thing, xs, acc, m, st, depth) ==
    IF xs = <<>>
    THEN [val |-> New(h, thing, acc, st.next),
          st |-> [st EXCEPT !.next = NextOid(thing, @)]]
    ELSE substitute_rest(h, thing, xs, acc, m, depth,
                         substitute(h, Head(xs), m, st, depth))

substitute_rest(h, thing, xs, acc, m, depth, r1) ==
    IF r1.st.err # "none" THEN r1
    ELSE substitute_each(h, thing, Tail(xs), Append(acc, r1.val), m, r1.st, depth)

substitute_links(h, obj, native_uid, next) ==
    substitute(h, obj, [kind |-> "links", obj |-> obj, native_uid |-> native_uid],
               SubstInit(next), 1)

substitute_objects(h, obj, index, next) ==
    substitute(h, obj, [kind |-> "objects", index |-> index], SubstInit(next), 1)

----------------------------------------------------------------------------
(* writable_sort_order, set_uuids, flatten *)

\* the type tag of an entity value
TypTag(h, v) == IF v.k = "ent" THEN h[v.e].typ ELSE v.typ

\* a ranking that puts every spec in one tier, the material spec included
SpecsTogether(typ) ==
    CASE typ \in {"condition_template", "parameter_template", "property_template"} -> 0
      [] typ \in {"material_template", "process_template", "measurement_template"} -> 1
      [] typ \in {"process_spec", "measurement_spec", "material_spec"} -> 2
      [] typ \in {"process_run"} -> 3
      [] typ \in {"ingredient_spec", "material_run"} -> 4
      [] typ \in {"ingredient_run", "measurement_run"} -> 5
      [] OTHER -> -1

\* lines 254-267 on the tag typ;
\* -1 stands for the ValueError of an unrecognized type string
writable_sort_order(typ) ==
    CASE typ \in {"condition_template", "parameter_template", "property_template"} -> 0
      [] typ \in {"material_template", "process_template", "measurement_template"} -> 1
      [] typ \in {"process_spec", "measurement_spec"} -> 2
      [] typ \in {"process_run", "material_spec"} -> 3
      [] typ \in {"ingredient_spec", "material_run"} -> 4
      [] typ \in {"ingredient_run", "measurement_run"} -> 5
      [] OTHER -> -1

\* isinstance(key, str): None is the NoneType value
IsStr(key) == key.k = "scalar" /\ key # None

\* writable_sort_order(key), lines 247-267: [status, rank]
sort_order(h, key) ==
    IF ~IsEntity(key) /\ ~IsStr(key) THEN [status |-> "ValueError", rank |-> -1]
    ELSE IF writable_sort_order(IF IsEntity(key) THEN TypTag(h, key) ELSE key.v) = -1
    THEN [status |-> "ValueError", rank |-> -1]
    ELSE [status |-> "ok",
          rank |-> writable_sort_order(IF IsEntity(key) THEN TypTag(h, key) ELSE key.v)]

\* str(uuid.uuid4()) for the entity e: a value no other identifier has
Uuid4(e) == 1000 + e

\* set_uuids.func on every entity recursive_foreach called it on (st.calls)
add_uids(h, name, st) ==
    [err |-> st.err,
     heap |-> [e \in DOMAIN h |->
                 IF Ent(e) \in Range(st.calls) /\ DOMAIN h[e].uids = {}
                 THEN [h[e] EXCEPT !.uids = [s \in {name} |-> Uuid4(e)]]
                 ELSE h[e]]]

\* set_uuids: [err, heap]
set_uuids(h, obj, name) ==
    add_uids(h, name, recursive_foreach(h, obj, FALSE, ForeachInit, 1))

\* [substitute_links(x) for x in res]: [vals, err]
RECURSIVE links_each(_, _, _, _), links_rest(_, _, _, _)
links_each(h, res, acc, next) ==
    IF res = <<>> THEN [vals |-> acc, err |-> "none"]
    ELSE links_rest(h, res, acc, substitute_links(h, Head(res), "", next))

links_rest(h, res, acc, r) ==
    IF r.st.err # "none" THEN [vals |-> <<>>, err |-> r.st.err]
    ELSE links_each(h, Tail(res), Append(acc, r.val), r.st.next)

\* a flatten that returns the elements in the order they were collected
Unsorted(xs) == xs

\* sorted(xs, key=writable_sort_order): stable
RECURSIVE SortedFrom(_, _)
SortedFrom(xs, rank) ==
    IF rank > 5 THEN <<>>
    ELSE SelectSeq(xs, LAMBDA x : writable_sort_order(x.typ) = rank)
            \o SortedFrom(xs, rank + 1)
sorted(xs) == SortedFrom(xs, 0)

\* line 150: sort what substitute_links made of the collected entities
flatten_sorted(h1, ls) ==
    IF ls.err # "none" THEN [status |-> ls.err, list |-> <<>>, heap |-> h1]
    ELSE IF \E i \in DOMAIN ls.vals : writable_sort_order(ls.vals[i].typ) = -1
    THEN [status |-> "ValueError", list |-> <<>>, heap |-> h1]
    ELSE [status |-> "ok", list |-> sorted(ls.vals), heap |-> h1]

\* lines 149-150: res of recursive_flatmap, then substitute_links on each
flatten_collected(h1, fm) ==
    IF fm.err # "none" THEN [status |-> fm.err, list |-> <<>>, heap |-> h1]
    ELSE flatten_sorted(h1, links_each(h1, fm.res, <<>>, FirstOid))

\* lines 129-149: known_uids starts with the uids of obj
flatten_known(obj, su) ==
    IF su.err # "none" THEN [status |-> su.err, list |-> <<>>, heap |-> su.heap]
    ELSE flatten_collected(su.heap,
             recursive_flatmap(su.heap, obj, "flatten", FALSE,
                 FlatmapInit(IF IsEntity(obj) THEN UidItems(Uids(su.heap, obj)) ELSE {}),
                 1))

\* flatten(obj): [status, list, heap]
flatten(h, obj) == flatten_known(obj, set_uuids(h, obj, "auto"))

----------------------------------------------------------------------------
(* The graphs *)

NoUids == [s \in {} |-> 0]

\* the type tag of each entity of a graph built field by field
TypOf(e) ==
    CASE e = 1 -> "process_run" [] e = 2 -> "ingredient_run" [] OTHER -> "process_spec"

\* the uids the entities are constructed with
UidProfiles == {"none", "distinct", "shared", "case", "partial", "rootshared"}
UidsOf(profile, e) ==
    CASE profile = "none" -> NoUids
      [] profile = "distinct" -> [s \in {"id"} |-> e]
      [] profile = "shared" -> [s \in {"id"} |-> IF e = 3 THEN 2 ELSE e]
      [] profile = "case" -> IF e = 3 THEN [s \in {"ID"} |-> 2] ELSE [s \in {"id"} |-> e]
      [] profile = "partial" ->
            IF e = 2 THEN [s \in {"id", "my"} |-> IF s = "id" THEN 5 ELSE 2] ELSE NoUids
      [] profile = "rootshared" -> [s \in {"id"} |-> IF e = 2 THEN 1 ELSE e]

\* how a field holds the entity it is set to
Wraps == {"direct", "list", "nested", "dict", "cyclic", "tuplelist", "link"}

\* the object id of the value a field assignment creates
SlotOid(e, f) == 10 * e + (CHOOSE i \in DOMAIN AllFieldNames : AllFieldNames[i] = f)

\* a LinkByUID to the entity t
LinkTo(h, t, oid) ==
    Link(FromEntityScope(h[t].uids), h[t].uids[FromEntityScope(h[t].uids)], oid)

\* the value assigned to field f of entity e so that it holds entity t
\* (a link wrap holds one and the same link twice in a list)
WrapVal(w, h, t, e, f) ==
    CASE w = "direct" -> IF f \in skip THEN List(<<Ent(t)>>) ELSE Ent(t)
      [] w = "list" -> List(<<Ent(t)>>)
      [] w = "nested" -> Tuple(<<Rec(SlotOid(e, f), [n \in {"_value"} |-> Ent(t)])>>)
      [] w = "dict" -> Dict(<<Scalar("k"), Ent(t)>>, <<Ent(t), None>>)
      [] w = "cyclic" -> CycList(<<Ent(t)>>)
      [] w = "tuplelist" -> Tuple(<<List(<<Ent(t)>>)>>)
      [] w = "link" ->
            IF f \in skip THEN LinkTo(h, t, SlotOid(e, f))
            ELSE List(<<LinkTo(h, t, SlotOid(e, f)), LinkTo(h, t, SlotOid(e, f))>>)

\* the wraps and uid profiles graphs are built with
Setups ==
    ({"direct"} \X UidProfiles) \cup ((Wraps \ {"direct"}) \X {"distinct"})
        \cup {<<"tuplelist", "none">>}

\* test_flatten_empty_history: the four specs and the four runs
ChainHeap ==
    [e \in ChainEntities |->
       [typ |-> CASE e \in {1, 3} -> "process_spec" [] e = 2 -> "material_spec"
                  [] e = 4 -> "ingredient_spec" [] e \in {5, 7} -> "process_run"
                  [] e = 6 -> "material_run" [] e = 8 -> "ingredient_run",
        uids |-> NoUids,
        fields |->
          CASE e = 1 -> NoFields
            [] e = 2 -> [NoFields EXCEPT !["_process"] = Ent(1)]
            [] e = 3 -> [NoFields EXCEPT !["_ingredients"] = List(<<Ent(4)>>)]
            [] e = 4 -> [NoFields EXCEPT !["_material"] = Ent(2), !["_process"] = Ent(3)]
            [] e = 5 -> [NoFields EXCEPT !["_spec"] = Ent(1)]
            [] e = 6 -> [NoFields EXCEPT !["_process"] = Ent(5), !["_spec"] = Ent(2)]
            [] e = 7 -> [NoFields EXCEPT !["_spec"] = Ent(3),
                                         !["_ingredients"] = List(<<Ent(8)>>)]
            [] e = 8 -> [NoFields EXCEPT !["_material"] = Ent(6), !["_process"] = Ent(7),
                                         !["_spec"] = Ent(4)]]]

InitBuild ==
    \E su \in Setups :
        /\ heap = [e \in Entities |->
                     [typ |-> TypOf(e), uids |-> UidsOf(su[2], e), fields |-> NoFields]]
        /\ wrap = su[1]
        /\ root = 1

\* the material history, its entities made without uids or with one each
InitChain ==
    /\ \E ids \in BOOLEAN :
           heap = [e \in ChainEntities |->
                     [ChainHeap[e] EXCEPT !.uids = IF ids THEN [s \in {"id"} |-> e]
                                                  ELSE NoUids]]
    /\ wrap = "chain"
    /\ root \in ChainEntities

Init ==
    /\ InitBuild \/ InitChain
    /\ edges = 0
    /\ pc = "build"
    /\ op = [name |-> "none"]
    /\ out = [status |-> "none"]

\* the entities some field of the graph holds
Targets(h, w) ==
    {t \in DOMAIN h : \E e \in DOMAIN h : \E f \in DOMAIN h[e].fields :
        h[e].fields[f] # None /\ h[e].fields[f] = WrapVal(w, h, t, e, f)}

\* a field setter: entity e, reachable from the root, now holds entity t
SetField(e, f, t) ==
    /\ pc = "build"
    /\ wrap \in Wraps
    /\ edges < MaxEdges
    /\ e \in {root} \cup Targets(heap, wrap)
    /\ heap[e].fields[f] = None
    /\ wrap = "link" => DOMAIN heap[t].uids # {}
    /\ heap' = [heap EXCEPT ![e].fields[f] = WrapVal(wrap, heap, t, e, f)]
    /\ edges' = edges + 1
    /\ UNCHANGED <<wrap, root, pc, op, out>>

Status(err) == IF err = "none" THEN "ok" ELSE err

ForeachOut(st) == [status |-> Status(st.err), calls |-> st.calls]

Foreach(apply_first) ==
    /\ pc = "build"
    /\ out' = ForeachOut(recursive_foreach(heap, Ent(root), apply_first, ForeachInit, 1))
    /\ op' = [name |-> "recursive_foreach", apply_first |-> apply_first]
    /\ pc' = "done"
    /\ UNCHANGED <<heap, wrap, root, edges>>

FlatmapOut(st) == [status |-> Status(st.err), res |-> st.res]

Flatmap(unidirectional) ==
    /\ pc = "build"
    /\ out' = FlatmapOut(recursive_flatmap(heap, Ent(root), "identity", unidirectional,
                                           FlatmapInit({}), 1))
    /\ op' = [name |-> "recursive_flatmap", unidirectional |-> unidirectional]
    /\ pc' = "done"
    /\ UNCHANGED <<heap, wrap, root, edges>>

\* flatten leaves the uids it assigned in the entities
FlattenDone(fl) ==
    /\ out' = [status |-> fl.status, list |-> fl.list]
    /\ heap' = fl.heap

Flatten ==
    /\ pc = "build"
    /\ FlattenDone(flatten(heap, Ent(root)))
    /\ op' = [name |-> "flatten"]
    /\ pc' = "done"
    /\ UNCHANGED <<wrap, root, edges>>

NativeUids == {"", "id", "ID", "my"}

SubstOut(r) == [status |-> Status(r.st.err), val |-> r.val]

SubstituteLinks(native_uid) ==
    /\ pc = "build"
    /\ out' = SubstOut(substitute_links(heap, Ent(root), native_uid, FirstOid))
    /\ op' = [name |-> "substitute_links", native_uid |-> native_uid]
    /\ pc' = "done"
    /\ UNCHANGED <<heap, wrap, root, edges>>

\* an index of the entities vals: (lowercased scope, id) -> entity
IndexKeys(u) == {<<Lower(s), u[s]>> : s \in DOMAIN u}
RECURSIVE IndexFrom(_, _, _)
IndexFrom(h, vals, index) ==
    IF vals = <<>> THEN index
    ELSE IndexFrom(h, Tail(vals),
                   {p \in index : p[1] \notin IndexKeys(Uids(h, Head(vals)))}
                       \cup {<<key, Head(vals)>> : key \in IndexKeys(Uids(h, Head(vals)))})

SetToSeq(S) == SelectSeq([i \in 1 .. 8 |-> i], LAMBDA i : i \in S)
HeapIndex(h, S) == IndexFrom(h, [i \in DOMAIN SetToSeq(S) |-> Ent(SetToSeq(S)[i])], {})

\* substitute_objects on obj, which the links l were made of
ObjectsOut(obj, r) == [status |-> Status(r.st.err), val |-> r.val, obj |-> obj]
ObjectsOf(S, l) ==
    /\ wrap = "direct" => l.st.err = "none"
    /\ out' = ObjectsOut(IF wrap = "link" THEN Ent(root) ELSE l.val,
                         substitute_objects(heap,
                                            IF wrap = "link" THEN Ent(root) ELSE l.val,
                                            HeapIndex(heap, S), l.st.next))

\* substitute_objects with an index of the entities S, on the root entity
\* when its fields hold links and on what substitute_links made of it otherwise
SubstituteObjects(S) ==
    /\ pc = "build"
    /\ wrap \in {"direct", "link"}
    /\ ObjectsOf(S, substitute_links(heap, Ent(root), "", FirstOid))
    /\ op' = [name |-> "substitute_objects", index |-> S]
    /\ pc' = "done"
    /\ UNCHANGED <<heap, wrap, root, edges>>

\* [substitute_objects(x, index) for x in flat]: [vals, err]
RECURSIVE objects_each(_, _, _, _, _), objects_rest(_, _, _, _, _)
objects_each(h, flat, index, acc, next) ==
    IF flat = <<>> THEN [vals |-> acc, err |-> "none"]
    ELSE objects_rest(h, flat, index, acc, substitute_objects(h, Head(flat), index, next))

objects_rest(h, flat, index, acc, r) ==
    IF r.st.err # "none" THEN [vals |-> acc, err |-> r.st.err]
    ELSE objects_each(h, Tail(flat), index, Append(acc, r.val), r.st.next)

\* the first object id substitute_objects hands out after a flatten
SecondOid == 150

RoundTripOut(fl, rs) ==
    [status |-> Status(rs.err), list |-> fl.list, resolved |-> rs.vals]

\* index the flattened list by (lowercased scope, id) and resolve each of its
\* elements against that index
RoundTripOf(fl) ==
    /\ fl.status = "ok"
    /\ out' = RoundTripOut(fl, objects_each(fl.heap, fl.list,
                                            IndexFrom(fl.heap, fl.list, {}), <<>>,
                                            SecondOid))
    /\ heap' = fl.heap

RoundTrip ==
    /\ pc = "build"
    /\ RoundTripOf(flatten(heap, Ent(root)))
    /\ op' = [name |-> "round_trip"]
    /\ pc' = "done"
    /\ UNCHANGED <<wrap, root, edges>>

\* the typ attribute of the entity classes writable_sort_order names
TypeTags ==
    {"condition_template", "parameter_template", "property_template",
     "material_template", "process_template", "measurement_template",
     "process_spec", "measurement_spec", "process_run", "material_spec",
     "ingredient_spec", "material_run", "ingredient_run", "measurement_run"}

\* strings that are the typ of none of them: BaseEntity.typ, the empty
\* string, a tag in another case, a class name
OtherTags == {"base", "", "Process_Run", "ProcessRun"}

\* the keys writable_sort_order is called with: the entities of the graph,
\* an entity of each class and a plain BaseEntity, strings, and values that
\* are neither
SortKeys(h) ==
    {Ent(e) : e \in DOMAIN h}
        \cup {Built(0, t, NoUids, NoFields) : t \in TypeTags \cup {"base"}}
        \cup {Scalar(t) : t \in TypeTags \cup OtherTags}
        \cup {None, List(<<Scalar("process_run")>>), Tuple(<<Scalar("process_run")>>),
              Dict(<<Scalar("typ")>>, <<Scalar("process_run")>>), Link("id", 1, 0)}

SortOrder(key) ==
    /\ pc = "build"
    /\ out' = sort_order(heap, key)
    /\ op' = [name |-> "writable_sort_order", key |-> key]
    /\ pc' = "done"
    /\ UNCHANGED <<heap, wrap, root, edges>>

\* the scopes set_uuids is called with: the default and scopes in use
ScopeNames == {"auto", "id", "my"}

\* set_uuids returns None: the outcome, and the heap the call started from
SetUuidsDone(su) ==
    /\ out' = [status |-> Status(su.err), before |-> heap]
    /\ heap' = su.heap

\* set_uuids(root, name), once on the graph built and once more after that
SetUuids(name) ==
    /\ \/ pc = "build"
       \/ pc = "done" /\ op.name = "set_uuids" /\ op.calls = 1 /\ out.status = "ok"
    /\ SetUuidsDone(set_uuids(heap, Ent(root), name))
    /\ op' = [name |-> "set_uuids", scope |-> name,
              calls |-> IF pc = "build" THEN 1 ELSE 2]
    /\ pc' = "done"
    /\ UNCHANGED <<wrap, root, edges>>

Next ==
    \/ \E e \in Entities, f \in {"_ingredients", "_process"}, t \in Entities :
           SetField(e, f, t)
    \/ \E b \in BOOLEAN : Foreach(b)
    \/ \E b \in BOOLEAN : Flatmap(b)
    \/ Flatten
    \/ \E n \in NativeUids : SubstituteLinks(n)
    \/ \E S \in SUBSET Entities : SubstituteObjects(S)
    \/ RoundTrip
    \/ \E key \in SortKeys(heap) : SortOrder(key)
    \/ \E name \in ScopeNames : SetUuids(name)

Spec == Init /\ [][Next]_vars

----------------------------------------------------------------------------
(* Properties *)

Returned(name) == pc = "done" /\ op.name = name /\ out.status = "ok"

Rank(x) == writable_sort_order(x.typ)

\* C1: in the list flatten returns, an element of a lower rank (templates 0-1,
\* process and measurement specs 2, process runs and material specs 3,
\* ingredient specs and material runs 4, ingredient and measurement runs 5)
\* always stands before an element of a higher rank.
C1_SortedByRank ==
    Returned("flatten") =>
        \A i, j \in DOMAIN out.list :
            Rank(out.list[i]) < Rank(out.list[j]) => i < j

\* a flatten that returned elements of different ranks
C1_Witness ==
    /\ Returned("flatten")
    /\ \E i, j \in DOMAIN out.list : Rank(out.list[i]) < Rank(out.list[j])

\* the identifiers of an element, scopes compared without regard to case
LowerUidItems(u) == {<<Lower(s), u[s]>> : s \in DOMAIN u}

\* C2: no two elements of the list flatten returns share a (scope, value)
\* identifier pair, scopes compared case-insensitively.
C2_NoSharedIdentifier ==
    Returned("flatten") =>
        \A i, j \in DOMAIN out.list :
            i # j => LowerUidItems(out.list[i].uids) \cap LowerUidItems(out.list[j].uids) = {}

\* no entity at any depth of the value v
RECURSIVE HoldsNoEntity(_)
HoldsNoEntity(v) ==
    CASE v.k \in {"list", "tuple"} -> \A i \in DOMAIN v.items : HoldsNoEntity(v.items[i])
      [] v.k = "dict" -> /\ \A i \in DOMAIN v.keys : HoldsNoEntity(v.keys[i])
                         /\ \A i \in DOMAIN v.vals : HoldsNoEntity(v.vals[i])
      [] v.k = "rec" -> \A n \in DOMAIN v.attrs : HoldsNoEntity(v.attrs[n])
      [] v.k \in {"ent", "built"} -> FALSE
      [] OTHER -> TRUE

\* new is old with a link wherever old holds an entity: under the scope
\* native if the entity has it, under one of its scopes otherwise
RECURSIVE Linked(_, _, _, _)
Linked(h, native, old, new) ==
    CASE old.k = "ent" ->
            /\ new.k = "link"
            /\ IF native # "" /\ HasScope(h[old.e].uids, native)
               THEN new.scope = native /\ new.id = GetScope(h[old.e].uids, native)
               ELSE <<new.scope, new.id>> \in UidItems(h[old.e].uids)
      [] old.k \in {"list", "tuple"} ->
            /\ new.k = old.k
            /\ Len(new.items) = Len(Items(old))
            /\ \A i \in DOMAIN new.items : Linked(h, native, Items(old)[i], new.items[i])
      [] old.k = "dict" ->
            /\ new.k = "dict"
            /\ Len(new.keys) = Len(old.keys)
            /\ \A i \in DOMAIN old.keys : /\ Linked(h, native, old.keys[i], new.keys[i])
                                          /\ Linked(h, native, old.vals[i], new.vals[i])
      [] old.k = "rec" ->
            /\ new.k = "rec"
            /\ DOMAIN new.attrs = DOMAIN old.attrs
            /\ \A n \in DOMAIN old.attrs : Linked(h, native, old.attrs[n], new.attrs[n])
      [] old.k = "link" -> new.k = "link" /\ new.scope = old.scope /\ new.id = old.id
      [] OTHER -> new = old

\* el is a new instance of the entity e with its entities replaced by links
LinkedCopy(h, native, el, e) ==
    /\ el.k = "built" /\ el.typ = h[e].typ /\ el.uids = h[e].uids
    /\ DOMAIN el.attrs = DOMAIN AsDict(h, Ent(e))
    /\ \A n \in DOMAIN el.attrs : Linked(h, native, h[e].fields[n], el.attrs[n])

ElementOf(h, el, e) == LinkedCopy(h, "", el, e)

\* C3: no element of the list flatten returns holds an entity at any depth of
\* its attribute view: every position that held an entity in the input holds
\* a link to it in the output.
C3_NoEntityPointers ==
    Returned("flatten") =>
        \A i \in DOMAIN out.list :
            /\ \A n \in DOMAIN out.list[i].attrs : HoldsNoEntity(out.list[i].attrs[n])
            /\ \E e \in DOMAIN heap : ElementOf(heap, out.list[i], e)

\* a flatten that returned an element whose field held an entity inside a
\* tuple and a record
C3_Witness ==
    /\ Returned("flatten")
    /\ wrap = "nested"
    /\ \E i \in DOMAIN out.list : \E n \in DOMAIN out.list[i].attrs :
           /\ out.list[i].attrs[n].k = "tuple"
           /\ out.list[i].attrs[n].items[1].attrs["_value"].k = "link"

\* the entities a value holds, inside its containers and records
RECURSIVE Mentions(_)
Mentions(v) ==
    CASE v.k = "ent" -> {v.e}
      [] v.k \in {"list", "tuple"} -> UNION {Mentions(v.items[i]) : i \in DOMAIN v.items}
      [] v.k = "dict" -> UNION ({Mentions(v.keys[i]) : i \in DOMAIN v.keys}
                                \cup {Mentions(v.vals[i]) : i \in DOMAIN v.vals})
      [] v.k = "rec" -> UNION {Mentions(v.attrs[n]) : n \in DOMAIN v.attrs}
      [] OTHER -> {}

FieldNames == Range(AllFieldNames)

\* the entities the fields names of the entities S hold
Succ(h, S, names) ==
    UNION {Mentions(h[e].fields[n]) : e \in S, n \in DOMAIN NoFields \cap names}

\* the entities reachable from those of S through the fields names
RECURSIVE Reach(_, _, _)
Reach(h, S, names) ==
    IF Succ(h, S, names) \subseteq S THEN S ELSE Reach(h, S \cup Succ(h, S, names), names)

\* the graph holds no list that contains itself and no tuple that holds a list
PlainContainers == wrap \notin {"cyclic", "tuplelist"}

\* C4: flatten terminates on every finite graph reachable from the root,
\* whatever cycles it holds: through several entities, an entity (root or
\* not) that reaches itself directly through its own fields or containers,
\* entities shared along several paths; and so does recursive_flatmap.
C4_Terminates ==
    (pc = "done" /\ op.name \in {"flatten", "recursive_flatmap"} /\ PlainContainers)
        => out.status # "RecursionError"

\* recursive_foreach returns
ForeachTerminates == (pc = "done" /\ op.name = "recursive_foreach") => out.status = "ok"

\* func was called exactly once on each entity reachable from the root
ForeachExactlyOnce ==
    Returned("recursive_foreach") =>
        /\ {c.e : c \in Range(out.calls)} = Reach(heap, {root}, FieldNames)
        /\ \A i, j \in DOMAIN out.calls : out.calls[i] = out.calls[j] => i = j

\* the position of entity e in a sequence of calls
Pos(calls, e) == CHOOSE i \in DOMAIN calls : calls[i] = Ent(e)

\* the order recursive_foreach enters the entities in
Entered == recursive_foreach(heap, Ent(root), TRUE, ForeachInit, 1).calls

\* func runs on an entity before (apply_first) or after the entities first
\* reached through its fields
ForeachOrder ==
    Returned("recursive_foreach") =>
        /\ op.apply_first => out.calls = Entered
        /\ ~op.apply_first =>
              \A e \in Reach(heap, {root}, FieldNames) :
                  \A t \in Succ(heap, {e}, FieldNames) :
                      Pos(Entered, e) < Pos(Entered, t)
                          => Pos(out.calls, t) < Pos(out.calls, e)

\* C5: recursive_foreach terminates on any finite, possibly cyclic graph and
\* calls the callback exactly once on every entity reachable from the root,
\* the root included, in both modes; with apply_first it runs on an entity
\* before it runs on those first reached through its fields, and otherwise
\* after them.
C5_ForeachOnce == ForeachTerminates /\ ForeachExactlyOnce /\ ForeachOrder

\* no two entities reachable from the root share an identifier
DistinctIds ==
    \A e, t \in Reach(heap, {root}, FieldNames) :
        e # t => LowerUidItems(heap[e].uids) \cap LowerUidItems(heap[t].uids) = {}

\* the lengths test_flatten_empty_history expects of the eight flattened lists
ChainCounts == <<0, 1, 3, 3, 1, 3, 7, 7>>

\* C6: flatten(root) returns exactly one element for each entity other than
\* the root that is reachable from it through any chain of fields, the
\* back-reference fields included, and never the root; on the material
\* history of the test the specs flatten to 0, 1, 3 and 3 elements and the
\* runs to 1, 3, 7 and 7.
C6_OnePerReachable ==
    (pc = "done" /\ op.name = "flatten" /\ PlainContainers /\ DistinctIds) =>
        /\ out.status = "ok"
        /\ Len(out.list) = Cardinality(Reach(heap, {root}, FieldNames) \ {root})
        /\ \A e \in Reach(heap, {root}, FieldNames) \ {root} :
               \E i \in DOMAIN out.list : ElementOf(heap, out.list[i], e)
        /\ wrap = "chain" => Len(out.list) = ChainCounts[root]

\* the fields recursive_flatmap walks in the mode of the call
Walked == IF op.unidirectional THEN FieldNames \ skip ELSE FieldNames

\* a process run whose only field set is its ingredients back-reference, to
\* one ingredient run whose only field set is its process, the process run
PairGraph ==
    /\ heap[root].fields = [NoFields EXCEPT !["_ingredients"] = List(<<Ent(2)>>)]
    /\ heap[2].fields = [NoFields EXCEPT !["_process"] = Ent(root)]
    /\ heap[root].typ = "process_run" /\ heap[2].typ = "ingredient_run"

\* C7: with unidirectional=True recursive_flatmap descends into no field of
\* an entity's skip set, so an entity reachable only through such fields
\* contributes nothing; with the mode off those fields are walked.  For a
\* process run with one ingredient run pointing at it and the identity
\* callback, the process run yields 2 elements with the mode off and 0 with
\* the mode on.
C7_SkipMode ==
    Returned("recursive_flatmap") =>
        /\ {x.e : x \in Range(out.res)} =
               Succ(heap, Reach(heap, {root}, Walked), Walked)
        /\ PairGraph => Len(out.res) = IF op.unidirectional THEN 0 ELSE 2

\* the process run and its ingredient run, collected with the mode on
C7_Witness ==
    /\ Returned("recursive_flatmap")
    /\ PairGraph
    /\ op.unidirectional
    /\ out.res = <<>>

\* the part of the graph reachable from the root
Graph == Reach(heap, {root}, FieldNames)

\* no entity of the graph reaches itself
Acyclic == \A e \in Graph : e \notin Reach(heap, Succ(heap, {e}, FieldNames), FieldNames)

\* every entity of the graph was made with a uid (set_uuids assigned none)
CarryIds == \A e \in Graph : DOMAIN heap[e].uids # {} /\ "auto" \notin DOMAIN heap[e].uids

\* no entity of the graph holds a back-reference
NoBackRefs == \A e \in Graph : \A n \in skip : heap[e].fields[n] = None

\* new is the value old with a new instance in the place of each entity,
\* of the same type, uids and attribute values
RECURSIVE Equivalent(_, _, _)
Equivalent(h, old, new) ==
    CASE old.k = "ent" ->
            /\ new.k = "built"
            /\ new.typ = h[old.e].typ /\ new.uids = h[old.e].uids
            /\ DOMAIN new.attrs = DOMAIN AsDict(h, old)
            /\ \A n \in DOMAIN new.attrs : Equivalent(h, h[old.e].fields[n], new.attrs[n])
      [] old.k \in {"list", "tuple"} ->
            /\ new.k = old.k
            /\ Len(new.items) = Len(old.items)
            /\ \A i \in DOMAIN old.items : Equivalent(h, old.items[i], new.items[i])
      [] old.k = "dict" ->
            /\ new.k = "dict"
            /\ Len(new.keys) = Len(old.keys)
            /\ \A i \in DOMAIN old.keys : /\ Equivalent(h, old.keys[i], new.keys[i])
                                          /\ Equivalent(h, old.vals[i], new.vals[i])
      [] old.k = "rec" ->
            /\ new.k = "rec"
            /\ DOMAIN new.attrs = DOMAIN old.attrs
            /\ \A n \in DOMAIN old.attrs : Equivalent(h, old.attrs[n], new.attrs[n])
      [] OTHER -> new = old

\* the entities the value v holds at any depth, v itself included
RECURSIVE Occurrences(_)
Occurrences(v) ==
    CASE v.k = "built" -> {v} \cup UNION {Occurrences(v.attrs[n]) : n \in DOMAIN v.attrs}
      [] v.k \in {"list", "tuple"} -> UNION {Occurrences(v.items[i]) : i \in DOMAIN v.items}
      [] v.k = "dict" -> UNION ({Occurrences(v.keys[i]) : i \in DOMAIN v.keys}
                                \cup {Occurrences(v.vals[i]) : i \in DOMAIN v.vals})
      [] v.k = "rec" -> UNION {Occurrences(v.attrs[n]) : n \in DOMAIN v.attrs}
      [] OTHER -> {}

\* the entities an element of the resolved list refers to
Children(el) == Occurrences(el) \ {el}

\* C8: for every acyclic graph whose entities all carry uids, applying
\* substitute_objects to each element of flatten(G), with an index of the
\* elements of flatten(G) keyed by (lowercased scope, id), reconstructs a
\* graph structurally equivalent to G: the same attribute values and the same
\* reference topology, an entity shared by two parents in G being one shared
\* entity in the result.
C8_RoundTrip ==
    (pc = "done" /\ op.name = "round_trip" /\ PlainContainers /\ Acyclic /\ CarryIds
        /\ DistinctIds /\ NoBackRefs) =>
        /\ out.status = "ok"
        /\ \A i \in DOMAIN out.resolved :
              \E e \in Graph : /\ out.list[i].uids = heap[e].uids
                               /\ Equivalent(heap, Ent(e), out.resolved[i])
        /\ \A i, j \in DOMAIN out.resolved :
              \A a \in Children(out.resolved[i]), b \in Children(out.resolved[j]) :
                  a.uids = b.uids => a.oid = b.oid

\* the entities substitute_links(root) reaches: those of the root's
\* attribute view, the root apart
Reached == Succ(heap, {root}, FieldNames \ skip) \ {root}

\* C9: substitute_links(obj) fails with an error and returns no result
\* whenever it reaches an entity other than obj without any uid; it never
\* fails for obj itself having none, and when every reached entity other than
\* obj has a uid it succeeds, with a link under native_uid for each entity
\* that has that scope and under one of the entity's own scopes otherwise.
C9_LinkErrors ==
    (pc = "done" /\ op.name = "substitute_links" /\ PlainContainers) =>
        /\ (\E e \in Reached : DOMAIN heap[e].uids = {}) => out.status = "ValueError"
        /\ (\A e \in Reached : DOMAIN heap[e].uids # {}) =>
              /\ out.status = "ok"
              /\ LinkedCopy(heap, op.native_uid, out.val, root)

\* the index of a substitute_objects call
Index == HeapIndex(heap, op.index)

Hit(index, l) == \E p \in index : p[1] = <<Lower(l.scope), l.id>>

\* the links of the attribute view of obj, inside its containers
RECURSIVE LinksIn(_, _)
LinksIn(h, v) ==
    CASE v.k = "link" -> {v}
      [] v.k \in {"list", "tuple"} -> UNION {LinksIn(h, v.items[i]) : i \in DOMAIN v.items}
      [] v.k = "dict" -> UNION ({LinksIn(h, v.keys[i]) : i \in DOMAIN v.keys}
                                \cup {LinksIn(h, v.vals[i]) : i \in DOMAIN v.vals})
      [] v.k \in {"rec", "ent", "built"} ->
            UNION {LinksIn(h, AsDict(h, v)[n]) : n \in DOMAIN AsDict(h, v)}
      [] OTHER -> {}

\* new has the value of old: the same type, uids and attribute view, whether
\* or not it is the same object
RECURSIVE SameValue(_, _, _)
SameValue(h, old, new) ==
    CASE new.k = "ent" -> new = old
      [] old.k \in {"ent", "built"} ->
            /\ new.k = "built"
            /\ new.typ = TypTag(h, old) /\ new.uids = Uids(h, old)
            /\ DOMAIN new.attrs = DOMAIN AsDict(h, old)
            /\ \A n \in DOMAIN new.attrs : SameValue(h, AsDict(h, old)[n], new.attrs[n])
      [] old.k \in {"list", "tuple"} ->
            /\ new.k = old.k
            /\ Len(new.items) = Len(old.items)
            /\ \A i \in DOMAIN old.items : SameValue(h, old.items[i], new.items[i])
      [] old.k = "dict" ->
            /\ new.k = "dict"
            /\ Len(new.keys) = Len(old.keys)
            /\ \A i \in DOMAIN old.keys : /\ SameValue(h, old.keys[i], new.keys[i])
                                          /\ SameValue(h, old.vals[i], new.vals[i])
      [] old.k = "rec" ->
            /\ new.k = "rec"
            /\ DOMAIN new.attrs = DOMAIN old.attrs
            /\ \A n \in DOMAIN old.attrs : SameValue(h, old.attrs[n], new.attrs[n])
      [] old.k = "link" -> new.k = "link" /\ new.scope = old.scope /\ new.id = old.id
      [] OTHER -> new = old

\* new is old with every link the index misses left as it is, the very same
\* object, and every link it has replaced by an entity: one of the value of
\* the entity the index gives (exact), or one of its type and uids, made of
\* its attribute view resolved in the same way
RECURSIVE Resolved(_, _, _, _, _)
Resolved(h, index, exact, old, new) ==
    CASE old.k = "link" ->
            IF ~Hit(index, old) THEN new = old
            ELSE IF exact THEN SameValue(h, IndexGet(index, old), new)
            ELSE /\ IsEntity(new)
                 /\ TypTag(h, new) = TypTag(h, IndexGet(index, old))
                 /\ Uids(h, new) = Uids(h, IndexGet(index, old))
                 /\ new.k = "built" =>
                       \A n \in DOMAIN new.attrs :
                           Resolved(h, index, exact,
                                    AsDict(h, IndexGet(index, old))[n], new.attrs[n])
      [] old.k \in {"list", "tuple"} ->
            /\ new.k = old.k
            /\ Len(new.items) = Len(old.items)
            /\ \A i \in DOMAIN old.items : Resolved(h, index, exact, old.items[i], new.items[i])
      [] old.k = "dict" ->
            /\ new.k = "dict"
            /\ Len(new.keys) = Len(old.keys)
            /\ \A i \in DOMAIN old.keys :
                  /\ Resolved(h, index, exact, old.keys[i], new.keys[i])
                  /\ Resolved(h, index, exact, old.vals[i], new.vals[i])
      [] old.k \in {"rec", "ent", "built"} ->
            /\ new.k = IF old.k = "rec" THEN "rec" ELSE "built"
            /\ IsEntity(old) => TypTag(h, new) = TypTag(h, old) /\ Uids(h, new) = Uids(h, old)
            /\ DOMAIN new.attrs = DOMAIN AsDict(h, old)
            /\ \A n \in DOMAIN new.attrs :
                  Resolved(h, index, exact, AsDict(h, old)[n], new.attrs[n])
      [] OTHER -> new = old

\* substitute_objects does not fail when the index misses every link of obj
MissesTerminate ==
    (pc = "done" /\ op.name = "substitute_objects"
        /\ \A l \in LinksIn(heap, out.obj) : ~Hit(Index, l))
    => out.status = "ok"

----------------------------------------------------------------------------
(* writable_sort_order *)

\* the six tiers of the ranking, lowest first
Tiers ==
    << {"condition_template", "parameter_template", "property_template"},
       {"material_template", "process_template", "measurement_template"},
       {"process_spec", "measurement_spec"},
       {"process_run", "material_spec"},
       {"ingredient_spec", "material_run"},
       {"ingredient_run", "measurement_run"} >>

Sorted(key) == pc = "done" /\ op.name = "writable_sort_order" /\ op.key = key

\* the tag a key stands for: the typ of an entity, a string itself
TagOf(key) == IF IsEntity(key) THEN TypTag(heap, key) ELSE key.v

\* C11: writable_sort_order gives an entity, through its type tag, and a bare
\* type-tag string the rank of the tier the tag is in (templates of attributes
\* 0, templates of objects 1, process and measurement spec 2, process run and
\* material spec 3, ingredient spec and material run 4, ingredient and
\* measurement run 5), the same for an entity and for its bare tag; a tag in
\* no tier and a key that is neither an entity nor a string give an error.
C11_RankTable ==
    \A key \in SortKeys(heap) :
        Sorted(key) =>
            /\ \A i \in DOMAIN Tiers :
                   (IsEntity(key) \/ IsStr(key)) /\ TagOf(key) \in Tiers[i]
                       => out = [status |-> "ok", rank |-> i - 1]
            /\ (IsEntity(key) \/ IsStr(key))
                   /\ (\A i \in DOMAIN Tiers : TagOf(key) \notin Tiers[i])
                       => out.status = "ValueError"
            /\ ~IsEntity(key) /\ ~IsStr(key) => out.status = "ValueError"
            /\ IsEntity(key) => out = sort_order(heap, Scalar(TypTag(heap, key)))

\* an entity of the graph was ranked, in the highest tier
C11_Witness ==
    /\ Sorted(Ent(root))
    /\ out = [status |-> "ok", rank |-> 5]

----------------------------------------------------------------------------
(* set_uuids *)

\* what set_uuids promises for the entities reachable from the root
Identified ==
    \A e \in Reach(out.before, {root}, FieldNames) :
        /\ DOMAIN heap[e].uids # {}
        /\ DOMAIN out.before[e].uids = {}
               => /\ DOMAIN heap[e].uids = {op.scope}
                  /\ \A t \in DOMAIN out.before :
                         \A x \in DOMAIN out.before[t].uids :
                             out.before[t].uids[x] # heap[e].uids[op.scope]
        /\ DOMAIN out.before[e].uids # {} => heap[e].uids = out.before[e].uids

\* nothing but identifiers of reachable entities is changed
OnlyUids ==
    \A e \in DOMAIN heap :
        /\ heap[e].fields = out.before[e].fields
        /\ heap[e].typ = out.before[e].typ
        /\ e \notin Reach(out.before, {root}, FieldNames) => heap[e] = out.before[e]

\* set_uuids on the graphs recursive_foreach walks to the end
SetUuidsPlain ==
    (pc = "done" /\ op.name = "set_uuids" /\ PlainContainers) =>
        /\ out.status = "ok"
        /\ Identified
        /\ OnlyUids
        /\ op.calls = 2 => heap = out.before

\* C12: set_uuids(obj, name) on any finite graph, cyclic or not, leaves every
\* entity reachable from obj (obj itself and those behind back-reference
\* fields too) with an identifier: those with an empty identifier map get
\* one new identifier under the scope name, the others keep their map as it
\* was, and a second call changes nothing.
C12_AllIdentified ==
    (pc = "done" /\ op.name = "set_uuids") =>
        /\ Identified
        /\ op.calls = 2 => heap = out.before

----------------------------------------------------------------------------
(* Replaying a flattened list *)

\* the element el carries the identifier the Reference l names
Announces(el, l) == <<Lower(l.scope), l.id>> \in IndexKeys(el.uids)

\* an index of the elements before position i resolves the Reference l
ResolvedBefore(list, i, l) == \E j \in 1 .. (i - 1) : Announces(list[j], l)

\* the Reference l names an identifier of the root
RefersToRoot(l) == <<Lower(l.scope), l.id>> \in IndexKeys(heap[root].uids)

\* the material history of the test: every field holds an entity of the
\* class the field is declared with
MaterialHistory == wrap = "chain"

\* in the flattened material history every Reference to an entity other than
\* the root is resolved by the elements before it
ReplayButRoot ==
    (Returned("flatten") /\ MaterialHistory) =>
        \A i \in DOMAIN out.list :
            \A l \in LinksIn(heap, out.list[i]) :
                ~RefersToRoot(l) => ResolvedBefore(out.list, i, l)

\* on the graphs built field by field every Reference to an entity other
\* than the root names an element of the list
ListedButRoot ==
    (Returned("flatten") /\ wrap \in Wraps \ {"link"}) =>
        \A i \in DOMAIN out.list :
            \A l \in LinksIn(heap, out.list[i]) :
                ~RefersToRoot(l) => \E j \in DOMAIN out.list : Announces(out.list[j], l)

\* C13: the list flatten returns can be replayed front to back: every
\* Reference held by the element at position i names an entity that is an
\* element at a position before i, so an index of the elements before i
\* resolves all of them (stated for the material history of the test).
C13_Replayable ==
    (Returned("flatten") /\ MaterialHistory) =>
        \A i \in DOMAIN out.list :
            \A l \in LinksIn(heap, out.list[i]) : ResolvedBefore(out.list, i, l)

----------------------------------------------------------------------------
(* The callback of recursive_flatmap *)

\* the walked fields, of entities reachable through walked fields, that hold
\* the entity t
Holders(t) ==
    {p \in Reach(heap, {root}, Walked) \X (DOMAIN NoFields \cap Walked) :
        t \in Mentions(heap[p[1]].fields[p[2]])}

\* the positions of the result that hold the entity t
Emitted(t) == {i \in DOMAIN out.res : out.res[i] = Ent(t)}

\* where every field holds its entity at one place, the identity callback
\* emits an entity once for every field that holds it
OncePerHolder ==
    (Returned("recursive_flatmap") /\ wrap \in {"direct", "list", "nested", "chain"}) =>
        \A t \in DOMAIN heap : Cardinality(Emitted(t)) = Cardinality(Holders(t))

\* C14: recursive_flatmap applies the callback exactly once to every entity
\* reachable from the root, however many paths or cycles lead to it, so with
\* the identity callback the result holds each reachable entity once (stated
\* without asking whether the root itself is in the result).
C14_FlatmapOnce ==
    Returned("recursive_flatmap") =>
        /\ {x.e : x \in Range(out.res)} \cup {root} = Reach(heap, {root}, Walked)
        /\ \A t \in DOMAIN heap : Cardinality(Emitted(t)) <= 1

=============================================================================
